---- MODULE Spec2Model ----
(***************************************************************************)
(* cpu_daemon: a double-fork daemon that polls the CPU temperature with    *)
(* `sensors`, appends every reading to a log file and calls notify-send    *)
(* when the reading reaches TEMP_THRESHOLD.                                *)
(*                                                                         *)
(* Processes: the invoked process ("orig"), the child of the first fork    *)
(* ("child") and the child of the second fork ("grand").  Each process is  *)
(* at a program position pc[p]; one action models one statement (system    *)
(* call or library call) of create_daemon() or of main().                  *)
(*                                                                         *)
(* Spec is the whole program, with sensors runs of at most one line.       *)
(* ScanSpec is the monitoring loop of a daemonized process with sensors    *)
(* runs of up to MaxLines lines.  LiveSpec is the monitoring loop with     *)
(* time passing while the process waits for sensors or notify-send, under  *)
(* the fairness of a process that keeps running.  ScriptSpec is runs of   *)
(* start.sh and stop.sh, each launched program seen as pgrep and pkill     *)
(* see it.                                                                 *)
(*                                                                         *)
(* Temperatures are fixed-point numbers in thousandths of a degree         *)
(* Celsius (65.0 is 65000).  A line of the sensors output is the chunk one *)
(* fgets() call returns, abstracted to what strstr() and sscanf() look at. *)
(***************************************************************************)
EXTENDS Integers, Sequences, FiniteSets, TLC

\* ---------------------------------------------------------------- bounds
MaxCycles == 2      \* monitoring cycles explored
MaxLines  == 2      \* lines the sensors command prints in one run
NumFds    == 4      \* size of a process's descriptor table (0 .. NumFds-1)
MaxDelay  == 1      \* longest time one sensors or notify-send run is followed for
MaxAppends == 1     \* log entries followed per program launched by start.sh

\* ------------------------------------------------------ program constants
INTERVAL       == 5
TEMP_THRESHOLD == 65000
EXIT_SUCCESS   == 0
EXIT_FAILURE   == 1
PopenFailed    == 0 - 1000     \* `return -1` of get_cpu_temp
NoTctl         == 0            \* `float temp = 0.0` of get_cpu_temp

Procs == {"orig", "child", "grand"}

\* the runs of start.sh and of stop.sh that are followed
Starts == {"start1", "start2"}
Stops  == {"stop1"}

\* the states in which a launched program has a process in the process table
InTable == {"starting", "monitoring", "signalled"}
Fds   == 0 .. (NumFds - 1)

VARIABLES
  pc,          \* pc[p]: program position of process p
  exitStatus,  \* exitStatus[p]: status passed to exit()/returned by main, -1 while none
  exitAt,      \* exitAt[p]: the statement through which p exited, "none" while running
  killed,      \* processes ended by an external signal
  leader,      \* leader[p]: p is a session leader
  pgLeader,    \* pgLeader[p]: p is a process-group leader
  ctty,        \* ctty[p]: p's session has a controlling terminal
  cwd,         \* cwd[p]: working directory, "/" or "start"
  mask,        \* mask[p]: file-creation mask
  fds,         \* fds[p][d]: what descriptor d refers to
  failed,      \* failed[p]: the calls of create_daemon that failed in p
  log,         \* main: FILE *log ("unset" before fopen, then "open" or "NULL")
  temp,        \* main: float temp
  logBuf,      \* stdio buffer of FILE *log (entries written, not yet flushed)
  logFile,     \* content of the log file (entries that reached the file)
  sensor,      \* the get_cpu_temp() call of this iteration: how popen went,
               \* whether the sensors process exits, its output, the lines
               \* read, the value returned; NoCall before the call
  notifier,    \* the system() call of this iteration: whether it is running or
               \* done, whether the command exits, its status; NoAlert if none
  elapsed,     \* time since this iteration's get_cpu_temp() call began
  start,       \* start[s]: where the run s of start.sh is
  stop,        \* stop[k]: where the run k of stop.sh is
  daemon,      \* daemon[s]: the cpu_daemon program launched by the run s of
               \* start.sh: not launched, starting (create_daemon and fopen),
               \* monitoring, signalled (SIGTERM sent, still in the process
               \* table), dead, or failed at its start
  appended,    \* appended[s]: log entries the program launched by s has written
  readings,    \* history: every value get_cpu_temp() returned
  alerts,      \* history: every message send_notification() built
  cycle,       \* number of loop iterations started
  wrote,       \* log entries written in the current iteration
  notified,    \* send_notification() calls in the current iteration
  sleeps       \* number of sleep(INTERVAL) calls

vars == <<pc, exitStatus, exitAt, killed, leader, pgLeader, ctty, cwd, mask, fds,
          failed, log, temp, logBuf, logFile, sensor, notifier, elapsed, readings,
          alerts, cycle, wrote, notified, sleeps, start, stop, daemon, appended>>

\* the runs of the two scripts and the programs they launch
scriptVars == <<start, stop, daemon, appended>>
\* one run of the program in detail
progVars == <<pc, exitStatus, exitAt, killed, leader, pgLeader, ctty, cwd, mask, fds,
              failed, log, temp, logBuf, logFile, sensor, notifier, elapsed,
              readings, alerts, cycle, wrote, notified, sleeps>>

procVars == <<leader, pgLeader, ctty, cwd, mask, fds, failed>>
loopVars == <<log, temp, logBuf, logFile, sensor, notifier, elapsed, readings,
              alerts, cycle, wrote, notified, sleeps>>
\* the loop's variables that only count or record
histVars == <<readings, alerts, cycle, wrote, notified, sleeps>>

\* ------------------------------------------------------------ formatting
Abs(x) == IF x < 0 THEN 0 - x ELSE x

\* the digits cut off after the last shown decimal instead of rounded
Rounded_floor(t, unit) == Abs(t) \div unit

\* printf("%.<d>f") of a value in thousandths: the digits shown, rounded to
\* the nearest unit of the last shown decimal (unit = 10 for 2 decimals,
\* 100 for 1 decimal).
Rounded(t, unit) == (Abs(t) + unit \div 2) \div unit

\* a log line holding the highest reading so far instead of the one given
LogEntry_peak(t) ==
  LET m == IF readings # <<>> /\ readings[1] > t THEN readings[1] ELSE t IN
    [neg |-> m < 0, hundredths |-> Rounded(m, 10)]

\* "[%s] Temp: %.2f°C\n": the sign and the value in hundredths
LogEntry(t) == [neg |-> t < 0, hundredths |-> Rounded(t, 10)]

\* "notify-send '⚠️ CPU ALERT' 'Temp: %.1f°C exceeds safe limit!'"
AlertCommand(t) == [neg |-> t < 0, tenths |-> Rounded(t, 100)]

\* ---------------------------------------------------------- sensor lines
\* A line: whether it contains "Tctl:", whether the marker is the first
\* thing on the line, the character after "Tctl:" and blanks ("+", "-" or
\* "x" for anything else), and the number that follows (thousandths), or
\* NoNumber when no number follows.
NoNumber == 0 - 999999

OtherLine == [marker |-> FALSE, atStart |-> FALSE, sign |-> "x", num |-> NoNumber]
TctlLine(v) == [marker |-> TRUE, atStart |-> TRUE, sign |-> "+", num |-> v]

\* marker lines on which the sscanf fails: "Tctl: -5.0°C" and "k10temp Tctl: +70.3°C"
NegativeLine == [marker |-> TRUE, atStart |-> TRUE, sign |-> "-", num |-> 5000]
IndentedLine == [marker |-> TRUE, atStart |-> FALSE, sign |-> "+", num |-> 70300]
\* "Tctl: +N/A"
NoValueLine == [marker |-> TRUE, atStart |-> TRUE, sign |-> "+", num |-> NoNumber]

LineVals == {64999, 65000}

Lines == {OtherLine, NegativeLine, IndentedLine, NoValueLine} \cup {TctlLine(v) : v \in LineVals}

SeqsUpTo(S, n) == UNION { [1..k -> S] : k \in 0..n }

\* strstr(line, "Tctl:")
strstr(line) == line.marker

\* sscanf with a pattern that skips to the marker and takes either sign
sscanf_signed(line) ==
  IF line.marker /\ line.sign \in {"+", "-"} /\ line.num # NoNumber
    THEN 1 ELSE 0

\* sscanf(line, "Tctl: +%f°C", &temp): the number of assignments.  The
\* literal "Tctl:" must match from the first character, then '+', then a
\* number; the trailing "°C" does not change the count.
sscanf(line) ==
  IF line.marker /\ line.atStart /\ line.sign = "+" /\ line.num # NoNumber
    THEN 1 ELSE 0

\* the loop without its `break`: every line is read, the last match wins
RECURSIVE ScanLines_nobreak(_, _, _)
ScanLines_nobreak(out, i, t) ==
  IF i > Len(out) THEN [temp |-> t, nread |-> i - 1]
  ELSE IF strstr(out[i]) /\ sscanf(out[i]) = 1
         THEN ScanLines_nobreak(out, i + 1, out[i].num)
         ELSE ScanLines_nobreak(out, i + 1, t)

\* the while(fgets) loop of get_cpu_temp: i is the next line to read, t the
\* current value of temp; the result is the final temp and the number of
\* lines read.
RECURSIVE ScanLines(_, _, _)
ScanLines(out, i, t) ==
  IF i > Len(out) THEN [temp |-> t, nread |-> i - 1]
  ELSE IF strstr(out[i]) /\ sscanf(out[i]) = 1
         THEN [temp |-> out[i].num, nread |-> i]
         ELSE ScanLines(out, i + 1, t)

\* get_cpu_temp() has not been called in this iteration
NoCall == [launch |-> "none", exits |-> TRUE, out |-> <<>>, nread |-> 0, ret |-> 0]

\* send_notification() has not been called in this iteration
NoAlert == [state |-> "none", exits |-> TRUE, status |-> "none"]

\* get_cpu_temp with temp initialised to the error value instead of 0.0
get_cpu_temp_minus1(launch, out) ==
  IF launch = "popen_fail" THEN [temp |-> PopenFailed, nread |-> 0]
  ELSE ScanLines(out, 1, PopenFailed)

\* get_cpu_temp(): launch is how popen("sensors", "r") went:
\*   "popen_fail" popen returned NULL (fork or pipe failed);
\*   "no_tool"    popen started the shell, the shell found no `sensors`
\*                and printed nothing on its standard output;
\*   "ran"        sensors ran and printed out.
get_cpu_temp(launch, out) ==
  IF launch = "popen_fail" THEN [temp |-> PopenFailed, nread |-> 0]
  ELSE ScanLines(out, 1, NoTctl)

\* the comparison written with > instead of >=
AlertNeeded_strict(t) == t > TEMP_THRESHOLD

\* if (temp >= TEMP_THRESHOLD)
AlertNeeded(t) == t >= TEMP_THRESHOLD

\* ------------------------------------------------------------ descriptors
\* open()/fopen() take the lowest descriptor that is not in use
FreeFds(p) == {d \in Fds : fds[p][d] = "closed"}
LowestFree(p) == CHOOSE d \in FreeFds(p) : \A e \in FreeFds(p) : d <= e

Running(p) == p \notin killed /\ pc[p] \notin {"unborn", "exited"}

\* no script has been run: the program was invoked directly
ScriptsIdle ==
  /\ start = [s \in Starts |-> "idle"]
  /\ stop = [k \in Stops |-> "idle"]
  /\ daemon = [s \in Starts |-> "none"]
  /\ appended = [s \in Starts |-> 0]

\* -------------------------------------------------------------------- Init
Init ==
  /\ pc = [p \in Procs |-> IF p = "orig" THEN "fork1" ELSE "unborn"]
  /\ exitStatus = [p \in Procs |-> 0 - 1]
  /\ exitAt = [p \in Procs |-> "none"]
  /\ killed = {}
  /\ leader = [p \in Procs |-> FALSE]
  /\ pgLeader = [p \in Procs |-> p = "orig"]
  /\ ctty = [p \in Procs |-> p = "orig"]
  /\ cwd = [p \in Procs |-> "start"]
  /\ mask = [p \in Procs |-> 18]
  /\ fds = [p \in Procs |->
             [d \in Fds |-> IF p = "orig" /\ d <= 2 THEN "tty" ELSE "closed"]]
  /\ failed = [p \in Procs |-> {}]
  /\ log = "unset"
  /\ temp = 0
  /\ logBuf = <<>>
  /\ logFile = <<>>
  /\ sensor = NoCall
  /\ notifier = NoAlert
  /\ elapsed = 0
  /\ readings = <<>>
  /\ alerts = <<>>
  /\ cycle = 0
  /\ wrote = 0
  /\ notified = 0
  /\ sleeps = 0
  /\ ScriptsIdle

\* ---------------------------------------------------------- create_daemon
Exit(p, status, at) ==
  /\ pc' = [pc EXCEPT ![p] = "exited"]
  /\ exitStatus' = [exitStatus EXCEPT ![p] = status]
  /\ exitAt' = [exitAt EXCEPT ![p] = at]

\* fork() creates c as a copy of p: c inherits session, terminal, directory,
\* mask and descriptors, and leads neither a session nor a process group.
Fork(p, c, parentPc, childPc) ==
  /\ pc' = [pc EXCEPT ![p] = parentPc, ![c] = childPc]
  /\ leader' = [leader EXCEPT ![c] = FALSE]
  /\ pgLeader' = [pgLeader EXCEPT ![c] = FALSE]
  /\ ctty' = [ctty EXCEPT ![c] = ctty[p]]
  /\ cwd' = [cwd EXCEPT ![c] = cwd[p]]
  /\ mask' = [mask EXCEPT ![c] = mask[p]]
  /\ fds' = [fds EXCEPT ![c] = fds[p]]
  /\ UNCHANGED <<scriptVars, exitStatus, exitAt, killed, failed, loopVars>>

\* pid = fork(); pid >= 0
Fork1 ==
  /\ Running("orig") /\ pc["orig"] = "fork1"
  /\ Fork("orig", "child", "exit_parent1", "setsid")

\* the failure branch of the first fork exiting with EXIT_SUCCESS
Fork1Fail_success ==
  /\ Running("orig") /\ pc["orig"] = "fork1"
  /\ Exit("orig", EXIT_SUCCESS, "fork1_failed")
  /\ failed' = [failed EXCEPT !["orig"] = @ \cup {"fork1"}]
  /\ UNCHANGED <<scriptVars, killed, leader, pgLeader, ctty, cwd, mask, fds, loopVars>>

\* pid = fork(); if (pid < 0) exit(EXIT_FAILURE);
Fork1Fail ==
  /\ Running("orig") /\ pc["orig"] = "fork1"
  /\ Exit("orig", EXIT_FAILURE, "fork1_failed")
  /\ failed' = [failed EXCEPT !["orig"] = @ \cup {"fork1"}]
  /\ UNCHANGED <<scriptVars, killed, leader, pgLeader, ctty, cwd, mask, fds, loopVars>>

\* if (pid > 0) exit(EXIT_SUCCESS);
ParentExit1 ==
  /\ Running("orig") /\ pc["orig"] = "exit_parent1"
  /\ Exit("orig", EXIT_SUCCESS, "parent1")
  /\ UNCHANGED <<scriptVars, killed, procVars, loopVars>>

\* setsid() >= 0: new session and process group, the caller leads both and
\* has no controlling terminal
Setsid ==
  /\ Running("child") /\ pc["child"] = "setsid"
  /\ pc' = [pc EXCEPT !["child"] = "fork2"]
  /\ leader' = [leader EXCEPT !["child"] = TRUE]
  /\ pgLeader' = [pgLeader EXCEPT !["child"] = TRUE]
  /\ ctty' = [ctty EXCEPT !["child"] = FALSE]
  /\ UNCHANGED <<scriptVars, exitStatus, exitAt, killed, cwd, mask, fds, failed, loopVars>>

\* the setsid failure branch exiting with EXIT_SUCCESS
SetsidFail_success ==
  /\ Running("child") /\ pc["child"] = "setsid"
  /\ Exit("child", EXIT_SUCCESS, "setsid_failed")
  /\ failed' = [failed EXCEPT !["child"] = @ \cup {"setsid"}]
  /\ UNCHANGED <<scriptVars, killed, leader, pgLeader, ctty, cwd, mask, fds, loopVars>>

\* if (setsid() < 0) exit(EXIT_FAILURE);
SetsidFail ==
  /\ Running("child") /\ pc["child"] = "setsid"
  /\ Exit("child", EXIT_FAILURE, "setsid_failed")
  /\ failed' = [failed EXCEPT !["child"] = @ \cup {"setsid"}]
  /\ UNCHANGED <<scriptVars, killed, leader, pgLeader, ctty, cwd, mask, fds, loopVars>>

\* pid = fork(); pid >= 0
Fork2 ==
  /\ Running("child") /\ pc["child"] = "fork2"
  /\ Fork("child", "grand", "exit_parent2", "umask")

\* pid = fork(); if (pid < 0) exit(EXIT_FAILURE);
Fork2Fail ==
  /\ Running("child") /\ pc["child"] = "fork2"
  /\ Exit("child", EXIT_FAILURE, "fork2_failed")
  /\ failed' = [failed EXCEPT !["child"] = @ \cup {"fork2"}]
  /\ UNCHANGED <<scriptVars, killed, leader, pgLeader, ctty, cwd, mask, fds, loopVars>>

\* create_daemon without the exit of the second parent: the intermediate
\* child goes on to umask and returns to main like the grandchild
ParentExit2_return ==
  /\ Running("child") /\ pc["child"] = "exit_parent2"
  /\ pc' = [pc EXCEPT !["child"] = "umask"]
  /\ UNCHANGED <<scriptVars, exitStatus, exitAt, killed, procVars, loopVars>>

\* if (pid > 0) exit(EXIT_SUCCESS);
ParentExit2 ==
  /\ Running("child") /\ pc["child"] = "exit_parent2"
  /\ Exit("child", EXIT_SUCCESS, "parent2")
  /\ UNCHANGED <<scriptVars, killed, procVars, loopVars>>

\* umask(0); cannot fail
Umask(p) ==
  /\ Running(p) /\ pc[p] = "umask"
  /\ pc' = [pc EXCEPT ![p] = "chdir"]
  /\ mask' = [mask EXCEPT ![p] = 0]
  /\ UNCHANGED <<scriptVars, exitStatus, exitAt, killed, leader, pgLeader, ctty, cwd, fds, failed, loopVars>>

\* chdir("/"); the result is not looked at
Chdir(p) ==
  /\ Running(p) /\ pc[p] = "chdir"
  /\ pc' = [pc EXCEPT ![p] = "close0"]
  /\ \E ok \in BOOLEAN :
       /\ cwd' = [cwd EXCEPT ![p] = IF ok THEN "/" ELSE @]
       /\ failed' = [failed EXCEPT ![p] = IF ok THEN @ ELSE @ \cup {"chdir"}]
  /\ UNCHANGED <<scriptVars, exitStatus, exitAt, killed, leader, pgLeader, ctty, mask, fds, loopVars>>

\* close(d) for d = STDIN_FILENO, STDOUT_FILENO, STDERR_FILENO; fails with
\* EBADF when d is not open; the result is not looked at
Close(p, d) ==
  /\ Running(p) /\ pc[p] = <<"close0", "close1", "close2">>[d + 1]
  /\ pc' = [pc EXCEPT ![p] = <<"close1", "close2", "open0">>[d + 1]]
  /\ fds' = [fds EXCEPT ![p][d] = "closed"]
  /\ failed' = [failed EXCEPT ![p] =
                  IF fds[p][d] = "closed" THEN @ \cup {"close"} ELSE @]
  /\ UNCHANGED <<scriptVars, exitStatus, exitAt, killed, leader, pgLeader, ctty, cwd, mask, loopVars>>

\* open("/dev/null", ...), the k-th of the three calls; on success the
\* lowest free descriptor refers to the null device; the result is not
\* looked at.  After the third call create_daemon returns to main.
OpenNull(p, k) ==
  /\ Running(p) /\ pc[p] = <<"open0", "open1", "open2">>[k]
  /\ pc' = [pc EXCEPT ![p] = <<"open1", "open2", "fopen">>[k]]
  /\ \E ok \in BOOLEAN :
       /\ fds' = [fds EXCEPT ![p] =
                    IF ok /\ FreeFds(p) # {}
                      THEN [@ EXCEPT ![LowestFree(p)] = "null"] ELSE @]
       /\ failed' = [failed EXCEPT ![p] =
                       IF ok /\ FreeFds(p) # {} THEN @ ELSE @ \cup {"open"}]
  /\ UNCHANGED <<scriptVars, exitStatus, exitAt, killed, leader, pgLeader, ctty, cwd, mask, loopVars>>

\* -------------------------------------------------------------------- main
\* FILE *log = fopen(path, "a"); log != NULL.  The stream takes the lowest
\* free descriptor.
Fopen(p) ==
  /\ Running(p) /\ pc[p] = "fopen"
  /\ FreeFds(p) # {}
  /\ pc' = [pc EXCEPT ![p] = "sense"]
  /\ fds' = [fds EXCEPT ![p][LowestFree(p)] = "log"]
  /\ log' = "open"
  /\ UNCHANGED <<scriptVars, exitStatus, exitAt, killed, leader, pgLeader, ctty, cwd, mask, failed,
                 temp, logBuf, logFile, sensor, notifier, elapsed, histVars>>

\* main without the `if (!log) return 1;` test: a NULL stream enters the loop
FopenFail_continue(p) ==
  /\ Running(p) /\ pc[p] = "fopen"
  /\ log' = "NULL"
  /\ pc' = [pc EXCEPT ![p] = "sense"]
  /\ UNCHANGED <<scriptVars, exitStatus, exitAt, killed, procVars, temp, logBuf, logFile,
                 sensor, notifier, elapsed, histVars>>

\* if (!log) return 1;
FopenFail(p) ==
  /\ Running(p) /\ pc[p] = "fopen"
  /\ log' = "NULL"
  /\ Exit(p, 1, "log_failed")
  /\ UNCHANGED <<scriptVars, killed, procVars, temp, logBuf, logFile, sensor, notifier,
                 elapsed, histVars>>

\* the call get_cpu_temp() of a new loop iteration, up to popen("sensors", "r"):
\* it fails and get_cpu_temp returns at once, or a shell is running the
\* command, which finds no sensors tool or runs it; the process started may
\* never exit
Sense(p) ==
  /\ Running(p) /\ pc[p] = "sense"
  /\ cycle < MaxCycles
  /\ \E launch \in {"popen_fail", "no_tool", "ran"} :
     \E ex \in BOOLEAN :
       /\ launch # "ran" => ex
       /\ IF launch = "popen_fail"
            THEN LET r == get_cpu_temp(launch, <<>>) IN
                   /\ sensor' = [launch |-> launch, exits |-> ex, out |-> <<>>,
                                 nread |-> r.nread, ret |-> r.temp]
                   /\ pc' = [pc EXCEPT ![p] = "assign"]
            ELSE /\ sensor' = [NoCall EXCEPT !.launch = launch, !.exits = ex]
                 /\ pc' = [pc EXCEPT ![p] = "reading"]
  /\ cycle' = cycle + 1
  /\ wrote' = 0
  /\ notified' = 0
  /\ elapsed' = 0
  /\ UNCHANGED <<scriptVars, exitStatus, exitAt, killed, procVars, log, temp, logBuf, logFile,
                 notifier, readings, alerts, sleeps>>

\* get_cpu_temp with a deadline: a sensors process that does not exit is
\* given up and 0.0 is returned
ReadSensorFrom_timeout(p, Outs) ==
  /\ Running(p) /\ pc[p] = "reading"
  /\ \E out \in Outs :
       /\ (sensor.launch # "ran" \/ ~sensor.exits) => out = <<>>
       /\ LET r == get_cpu_temp(sensor.launch, out) IN
            sensor' = [sensor EXCEPT !.out = out, !.nread = r.nread, !.ret = r.temp]
  /\ pc' = [pc EXCEPT ![p] = "assign"]
  /\ UNCHANGED <<scriptVars, exitStatus, exitAt, killed, procVars, log, temp, logBuf, logFile,
                 notifier, elapsed, histVars>>

\* the rest of get_cpu_temp(): the fgets loop over the output, one of Outs,
\* and pclose, which waits until the process started by popen has exited;
\* the value returned is in sensor.ret
ReadSensorFrom(p, Outs) ==
  /\ Running(p) /\ pc[p] = "reading"
  /\ sensor.exits
  /\ \E out \in Outs :
       /\ sensor.launch # "ran" => out = <<>>
       /\ LET r == get_cpu_temp(sensor.launch, out) IN
            sensor' = [sensor EXCEPT !.out = out, !.nread = r.nread, !.ret = r.temp]
  /\ pc' = [pc EXCEPT ![p] = "assign"]
  /\ UNCHANGED <<scriptVars, exitStatus, exitAt, killed, procVars, log, temp, logBuf, logFile,
                 notifier, elapsed, histVars>>

\* a sensors run of at most one line
ReadSensor(p) == ReadSensorFrom(p, SeqsUpTo(Lines, 1))

\* a sensors run of up to MaxLines lines
ScanSensor(p) == ReadSensorFrom(p, SeqsUpTo(Lines, MaxLines))

\* the loop giving up on a failed reading: a negative value returned by
\* get_cpu_temp() makes main close the log and return
Assign_stopOnError(p) ==
  /\ Running(p) /\ pc[p] = "assign"
  /\ temp' = sensor.ret
  /\ readings' = Append(readings, sensor.ret)
  /\ IF sensor.ret < 0
       THEN /\ Exit(p, EXIT_FAILURE, "sensor_failed")
            /\ log' = "closed"
       ELSE /\ pc' = [pc EXCEPT ![p] = "fprintf"]
            /\ UNCHANGED <<exitStatus, exitAt, log>>
  /\ UNCHANGED <<scriptVars, killed, procVars, logBuf, logFile, sensor, notifier, elapsed,
                 alerts, cycle, wrote, notified, sleeps>>

\* float temp = <the value returned>; time_t now = time(NULL);
Assign(p) ==
  /\ Running(p) /\ pc[p] = "assign"
  /\ pc' = [pc EXCEPT ![p] = "fprintf"]
  /\ temp' = sensor.ret
  /\ readings' = Append(readings, sensor.ret)
  /\ UNCHANGED <<scriptVars, exitStatus, exitAt, killed, procVars, log, logBuf, logFile, sensor,
                 notifier, elapsed, alerts, cycle, wrote, notified, sleeps>>

\* the log write moved under the threshold test: only hot readings are logged
Fprintf_onlyWhenHot(p) ==
  /\ Running(p) /\ pc[p] = "fprintf"
  /\ pc' = [pc EXCEPT ![p] = "fflush"]
  /\ logBuf' = IF AlertNeeded(temp) THEN Append(logBuf, LogEntry(temp)) ELSE logBuf
  /\ wrote' = IF AlertNeeded(temp) THEN wrote + 1 ELSE wrote
  /\ UNCHANGED <<scriptVars, exitStatus, exitAt, killed, procVars, log, temp, logFile, sensor,
                 notifier, elapsed, readings, alerts, cycle, notified, sleeps>>

\* fprintf(log, "[%s] Temp: %.2f°C\n", ctime(&now), temp);
Fprintf(p) ==
  /\ Running(p) /\ pc[p] = "fprintf"
  /\ pc' = [pc EXCEPT ![p] = "fflush"]
  /\ logBuf' = Append(logBuf, LogEntry(temp))
  /\ wrote' = wrote + 1
  /\ UNCHANGED <<scriptVars, exitStatus, exitAt, killed, procVars, log, temp, logFile, sensor,
                 notifier, elapsed, readings, alerts, cycle, notified, sleeps>>

\* the loop without fflush(log): the entry stays in the stdio buffer
Fflush_noop(p) ==
  /\ Running(p) /\ pc[p] = "fflush"
  /\ pc' = [pc EXCEPT ![p] = "check"]
  /\ UNCHANGED <<scriptVars, exitStatus, exitAt, killed, procVars, loopVars>>

\* fflush(log);
Fflush(p) ==
  /\ Running(p) /\ pc[p] = "fflush"
  /\ pc' = [pc EXCEPT ![p] = "check"]
  /\ logFile' = logFile \o logBuf
  /\ logBuf' = <<>>
  /\ UNCHANGED <<scriptVars, exitStatus, exitAt, killed, procVars, log, temp, sensor, notifier,
                 elapsed, histVars>>

\* the threshold test remembering the last reading: no alert when the
\* reading before this one was at the threshold too
Check_dedup(p) ==
  /\ Running(p) /\ pc[p] = "check"
  /\ pc' = [pc EXCEPT ![p] =
              IF /\ AlertNeeded(temp)
                 /\ ~(Len(readings) > 1 /\ AlertNeeded(readings[Len(readings) - 1]))
                THEN "notify" ELSE "sleep"]
  /\ UNCHANGED <<scriptVars, exitStatus, exitAt, killed, procVars, loopVars>>

\* if (temp >= TEMP_THRESHOLD) { ... }
Check(p) ==
  /\ Running(p) /\ pc[p] = "check"
  /\ pc' = [pc EXCEPT ![p] = IF AlertNeeded(temp) THEN "notify" ELSE "sleep"]
  /\ UNCHANGED <<scriptVars, exitStatus, exitAt, killed, procVars, loopVars>>

\* send_notification called with the value of a second get_cpu_temp() call
\* instead of temp
send_notification_reread(p) ==
  /\ Running(p) /\ pc[p] = "notify"
  /\ pc' = [pc EXCEPT ![p] = "system"]
  /\ \E t \in {PopenFailed, NoTctl} \cup LineVals :
       alerts' = Append(alerts, AlertCommand(t))
  /\ notified' = notified + 1
  /\ \E ex \in BOOLEAN :
       notifier' = [state |-> "running", exits |-> ex, status |-> "none"]
  /\ UNCHANGED <<scriptVars, exitStatus, exitAt, killed, procVars, log, temp, logBuf, logFile,
                 sensor, elapsed, readings, cycle, wrote, sleeps>>

\* send_notification(temp): snprintf the command, then system(command)
\* starts a shell on it; the command may never exit
send_notification(p) ==
  /\ Running(p) /\ pc[p] = "notify"
  /\ pc' = [pc EXCEPT ![p] = "system"]
  /\ alerts' = Append(alerts, AlertCommand(temp))
  /\ notified' = notified + 1
  /\ \E ex \in BOOLEAN :
       notifier' = [state |-> "running", exits |-> ex, status |-> "none"]
  /\ UNCHANGED <<scriptVars, exitStatus, exitAt, killed, procVars, log, temp, logBuf, logFile,
                 sensor, elapsed, readings, cycle, wrote, sleeps>>

\* send_notification testing what system() returned: a failed command ends
\* the monitor
NotifyExit_checked(p) ==
  /\ Running(p) /\ pc[p] = "system"
  /\ notifier.exits
  /\ \E st \in {"ok", "failed"} :
       /\ notifier' = [notifier EXCEPT !.state = "done", !.status = st]
       /\ IF st = "failed"
            THEN Exit(p, EXIT_FAILURE, "notify_failed")
            ELSE /\ pc' = [pc EXCEPT ![p] = "sleep"]
                 /\ UNCHANGED <<exitStatus, exitAt>>
  /\ UNCHANGED <<scriptVars, killed, procVars, log, temp, logBuf, logFile, sensor, elapsed,
                 histVars>>

\* system() returns when the command has exited: notify-send succeeded, or
\* it failed or was not found; the value returned is not looked at and
\* send_notification returns to the loop
NotifyExit(p) ==
  /\ Running(p) /\ pc[p] = "system"
  /\ notifier.exits
  /\ \E st \in {"ok", "failed"} :
       notifier' = [notifier EXCEPT !.state = "done", !.status = st]
  /\ pc' = [pc EXCEPT ![p] = "sleep"]
  /\ UNCHANGED <<scriptVars, exitStatus, exitAt, killed, procVars, log, temp, logBuf, logFile,
                 sensor, elapsed, histVars>>

\* the loop without the sleep
Sleep_skipped(p) ==
  /\ Running(p) /\ pc[p] = "sleep"
  /\ pc' = [pc EXCEPT ![p] = "sense"]
  /\ sleeps' = sleeps + 1
  /\ sensor' = NoCall
  /\ notifier' = NoAlert
  /\ UNCHANGED <<scriptVars, exitStatus, exitAt, killed, procVars, log, temp, logBuf, logFile,
                 elapsed, readings, alerts, cycle, wrote, notified>>

\* sleep(INTERVAL); then the loop repeats
Sleep(p) ==
  /\ Running(p) /\ pc[p] = "sleep"
  /\ pc' = [pc EXCEPT ![p] = "sense"]
  /\ sleeps' = sleeps + 1
  /\ elapsed' = elapsed + INTERVAL
  /\ sensor' = NoCall
  /\ notifier' = NoAlert
  /\ UNCHANGED <<scriptVars, exitStatus, exitAt, killed, procVars, log, temp, logBuf, logFile,
                 readings, alerts, cycle, wrote, notified>>

\* one time unit passes while the process waits in pclose for the sensors
\* process or in system() for the notification command
Tick(p) ==
  /\ Running(p)
  /\ \/ pc[p] = "reading" /\ elapsed < MaxDelay
     \/ pc[p] = "system" /\ elapsed < 2 * MaxDelay
  /\ elapsed' = elapsed + 1
  /\ UNCHANGED <<scriptVars, pc, exitStatus, exitAt, killed, procVars, log, temp, logBuf,
                 logFile, sensor, notifier, histVars>>

\* An external signal ends the monitoring process wherever it is (stop.sh:
\* pkill -x "cpu_daemon").  What is still in the stdio buffer is lost.
Kill(p) ==
  /\ Running(p)
  /\ pc[p] \in {"sense", "reading", "assign", "fprintf", "fflush", "check",
                "notify", "system", "sleep"}
  /\ killed' = killed \cup {p}
  /\ logBuf' = <<>>
  /\ UNCHANGED <<scriptVars, pc, exitStatus, exitAt, procVars, log, temp, logFile, sensor,
                 notifier, elapsed, histVars>>

create_daemon(p) ==
  \/ Umask(p)
  \/ Chdir(p)
  \/ \E d \in 0..2 : Close(p, d)
  \/ \E k \in 1..3 : OpenNull(p, k)

\* the loop with the notification command started in the background: the
\* process goes on to the sleep while the command runs
loop_detached(p) ==
  \/ Sense(p)
  \/ Assign(p)
  \/ Fprintf(p)
  \/ Fflush(p)
  \/ Check(p)
  \/ send_notification(p)
  \/ NotifyExit(p)
  \/ Sleep(p)
  \/ /\ Running(p) /\ pc[p] = "system"
     /\ pc' = [pc EXCEPT ![p] = "sleep"]
     /\ UNCHANGED <<scriptVars, exitStatus, exitAt, killed, procVars, loopVars>>

\* one iteration of while (1), but for get_cpu_temp's reading of the output
loop(p) ==
  \/ Sense(p)
  \/ Assign(p)
  \/ Fprintf(p)
  \/ Fflush(p)
  \/ Check(p)
  \/ send_notification(p)
  \/ NotifyExit(p)
  \/ Sleep(p)

main(p) ==
  \/ Fopen(p)
  \/ FopenFail(p)
  \/ ReadSensor(p)
  \/ loop(p)

Next ==
  \/ Fork1
  \/ Fork1Fail
  \/ ParentExit1
  \/ Setsid
  \/ SetsidFail
  \/ Fork2
  \/ Fork2Fail
  \/ ParentExit2
  \/ \E p \in Procs : create_daemon(p)
  \/ \E p \in Procs : main(p)
  \/ \E p \in Procs : Kill(p)

Spec == Init /\ [][Next]_vars

\* the state create_daemon and fopen leave when every call succeeds: the two
\* parents have exited and the third process is about to enter the loop
InitMonitor ==
  /\ pc = [p \in Procs |-> IF p = "grand" THEN "sense" ELSE "exited"]
  /\ exitStatus = [p \in Procs |-> IF p = "grand" THEN 0 - 1 ELSE EXIT_SUCCESS]
  /\ exitAt = [orig |-> "parent1", child |-> "parent2", grand |-> "none"]
  /\ killed = {}
  /\ leader = [p \in Procs |-> p = "child"]
  /\ pgLeader = [p \in Procs |-> p # "grand"]
  /\ ctty = [p \in Procs |-> p = "orig"]
  /\ cwd = [p \in Procs |-> IF p = "grand" THEN "/" ELSE "start"]
  /\ mask = [p \in Procs |-> IF p = "grand" THEN 0 ELSE 18]
  /\ fds = [p \in Procs |->
             [d \in Fds |-> IF p = "grand"
                              THEN (IF d <= 2 THEN "null"
                                    ELSE IF d = 3 THEN "log" ELSE "closed")
                              ELSE (IF d <= 2 THEN "tty" ELSE "closed")]]
  /\ failed = [p \in Procs |-> {}]
  /\ log = "open"
  /\ temp = 0
  /\ logBuf = <<>>
  /\ logFile = <<>>
  /\ sensor = NoCall
  /\ notifier = NoAlert
  /\ elapsed = 0
  /\ readings = <<>>
  /\ alerts = <<>>
  /\ cycle = 0
  /\ wrote = 0
  /\ notified = 0
  /\ sleeps = 0
  /\ ScriptsIdle

\* the monitoring loop reading sensors runs of up to MaxLines lines
ScanNext ==
  \/ \E p \in Procs : ScanSensor(p)
  \/ \E p \in Procs : loop(p)

ScanSpec == InitMonitor /\ [][ScanNext]_vars

\* the monitoring loop with time passing and the stop signal
LiveNext ==
  \/ \E p \in Procs : ReadSensor(p)
  \/ \E p \in Procs : loop(p)
  \/ \E p \in Procs : Tick(p)
  \/ \E p \in Procs : Kill(p)

\* a process that is not stopped keeps executing
LiveSpec ==
  /\ InitMonitor
  /\ [][LiveNext]_vars
  /\ WF_vars(\E p \in Procs : ReadSensor(p) \/ loop(p))

\* ------------------------------------------------------ start.sh, stop.sh
\* Runs of the two scripts, concurrent with each other and with the
\* programs they launch.  A launched program is followed by what pgrep and
\* pkill see of it, its processes all being named cpu_daemon: launched and
\* on its way through create_daemon and fopen, monitoring, signalled, gone.

\* pgrep -x "cpu_daemon": some process of that name is in the process table
pgrep == \E s \in Starts : daemon[s] \in InTable

\* the user runs start.sh
RunStart(s) ==
  /\ start[s] = "idle"
  /\ start' = [start EXCEPT ![s] = "pgrep"]
  /\ UNCHANGED <<stop, daemon, appended, progVars>>

\* if pgrep -x "cpu_daemon" > /dev/null; then echo "ya está corriendo"
\* else echo "Iniciando daemon..."
StartPgrep(s) ==
  /\ start[s] = "pgrep"
  /\ start' = [start EXCEPT ![s] = IF pgrep THEN "already" ELSE "launch"]
  /\ UNCHANGED <<stop, daemon, appended, progVars>>

\* $DAEMON & ; echo "Daemon iniciado."
StartLaunch(s) ==
  /\ start[s] = "launch"
  /\ start' = [start EXCEPT ![s] = "started"]
  /\ daemon' = [daemon EXCEPT ![s] = "starting"]
  /\ UNCHANGED <<stop, appended, progVars>>

\* the launched program comes out of create_daemon and fopen and enters the
\* loop, or a fork, setsid or the fopen fails and it exits
Daemonize(s) ==
  /\ daemon[s] = "starting"
  /\ \E ok \in BOOLEAN :
       daemon' = [daemon EXCEPT ![s] = IF ok THEN "monitoring" ELSE "failed"]
  /\ UNCHANGED <<start, stop, appended, progVars>>

\* one iteration of the loop of a monitoring program: an entry is appended
\* to the log file
AppendEntry(s) ==
  /\ daemon[s] = "monitoring"
  /\ appended[s] < MaxAppends
  /\ appended' = [appended EXCEPT ![s] = @ + 1]
  /\ UNCHANGED <<start, stop, daemon, progVars>>

\* the user runs stop.sh
RunStop(k) ==
  /\ stop[k] = "idle"
  /\ stop' = [stop EXCEPT ![k] = "pgrep"]
  /\ UNCHANGED <<start, daemon, appended, progVars>>

\* if pgrep -x "cpu_daemon" > /dev/null; then echo "Deteniendo daemon..."
\* else echo "El daemon no está corriendo."
StopPgrep(k) ==
  /\ stop[k] = "pgrep"
  /\ stop' = [stop EXCEPT ![k] = IF pgrep THEN "pkill" ELSE "absent"]
  /\ UNCHANGED <<start, daemon, appended, progVars>>

\* pkill -x "cpu_daemon": SIGTERM is sent to every process of that name
\* that is in the process table; pkill does not wait for them to end
StopPkill(k) ==
  /\ stop[k] = "pkill"
  /\ stop' = [stop EXCEPT ![k] = "echo"]
  /\ daemon' = [s \in Starts |->
                  IF daemon[s] \in InTable THEN "signalled" ELSE daemon[s]]
  /\ UNCHANGED <<start, appended, progVars>>

\* echo "Daemon detenido."
StopEcho(k) ==
  /\ stop[k] = "echo"
  /\ stop' = [stop EXCEPT ![k] = "stopped"]
  /\ UNCHANGED <<start, daemon, appended, progVars>>

\* the signal ends a signalled program and it leaves the process table
Die(s) ==
  /\ daemon[s] = "signalled"
  /\ daemon' = [daemon EXCEPT ![s] = "dead"]
  /\ UNCHANGED <<start, stop, appended, progVars>>

ScriptNext ==
  \/ \E s \in Starts : RunStart(s)
  \/ \E s \in Starts : StartPgrep(s)
  \/ \E s \in Starts : StartLaunch(s)
  \/ \E s \in Starts : Daemonize(s)
  \/ \E s \in Starts : AppendEntry(s)
  \/ \E k \in Stops : RunStop(k)
  \/ \E k \in Stops : StopPgrep(k)
  \/ \E k \in Stops : StopPkill(k)
  \/ \E k \in Stops : StopEcho(k)
  \/ \E s \in Starts : Die(s)

\* runs of start.sh and stop.sh in any interleaving
ScriptSpec == Init /\ [][ScriptNext]_vars

TypeOK ==
  /\ pc \in [Procs -> {"unborn", "fork1", "exit_parent1", "setsid", "fork2",
                       "exit_parent2", "umask", "chdir", "close0", "close1",
                       "close2", "open0", "open1", "open2", "fopen", "sense",
                       "reading", "assign", "fprintf", "fflush", "check",
                       "notify", "system", "sleep", "exited"}]
  /\ exitStatus \in [Procs -> {0 - 1, 0, 1}]
  /\ killed \subseteq Procs
  /\ cycle \in 0..MaxCycles
  /\ Len(readings) \in {cycle, cycle - 1}
  /\ temp \in {PopenFailed, NoTctl} \cup LineVals

\* ------------------------------------------------------------ properties
LoopPcs   == {"sense", "reading", "assign", "fprintf", "fflush", "check", "notify",
              "system", "sleep"}
SensedPcs == {"fprintf", "fflush", "check", "notify", "system", "sleep"}
LoggedPcs == {"check", "notify", "system", "sleep"}

\* the log entries of a sequence of readings
Entries(rs) == [i \in 1..Len(rs) |-> LogEntry(rs[i])]

\* the output lines of the sensors run of this cycle's call
Out == sensor.out

\* a line the pattern "Tctl: +%f" reads a value from: it begins with the
\* marker, a '+' follows and then a number
Readable(line) ==
  line.marker /\ line.atStart /\ line.sign = "+" /\ line.num # NoNumber

\* main stores the value get_cpu_temp() returned in temp
ReadingStored ==
  \A p \in Procs : pc[p] = "assign" /\ pc'[p] = "fprintf" => temp' = sensor.ret

\* C1: in every cycle send_notification is called exactly once, with the
\* cycle's reading, when the reading is >= 65.0 (65.0 included), and not at
\* all when it is below; no call happens before the threshold test.
C1_AlertIffAtThreshold ==
  \A p \in Procs :
    /\ pc[p] \in {"reading", "assign", "fprintf", "fflush", "check", "notify"} =>
         notified = 0
    /\ pc[p] \in {"notify", "system"} => temp >= TEMP_THRESHOLD
    /\ (pc[p] \in {"system", "sleep"} \/ (pc[p] = "sense" /\ cycle > 0)) =>
         IF temp >= TEMP_THRESHOLD
           THEN /\ notified = 1
                /\ alerts # <<>>
                /\ alerts[Len(alerts)] = AlertCommand(temp)
           ELSE notified = 0

\* a cycle whose reading is exactly 65.0 has fired its one alert
C1_Witness ==
  /\ pc["grand"] = "sleep"
  /\ temp = 65000
  /\ notified = 1
  /\ alerts[Len(alerts)].tenths = 650

\* C2: every cycle writes exactly one log entry, whatever the reading, and
\* the entry is written and flushed before the threshold test: at the test,
\* at the alert and at the sleep the cycle's entry is in the file, and no
\* alert precedes it.
C2_OneLogEntryBeforeCheck ==
  \A p \in Procs :
    /\ pc[p] \in {"reading", "assign", "fprintf"} =>
         wrote = 0 /\ notified = 0 /\ Len(logFile) = cycle - 1
    /\ pc[p] = "fflush" => wrote = 1 /\ notified = 0 /\ Len(logFile) = cycle - 1
    /\ pc[p] \in LoggedPcs => wrote = 1 /\ logBuf = <<>> /\ Len(logFile) = cycle
    /\ pc[p] = "sense" => Len(logFile) = cycle
    /\ notified > 0 => Len(logFile) = cycle

\* the second cycle stands at the threshold test with its entry in the file
\* although its reading is below the threshold
C2_Witness ==
  /\ pc["grand"] = "check"
  /\ cycle = 2
  /\ temp < TEMP_THRESHOLD
  /\ wrote = 1
  /\ Len(logFile) = 2

\* C3: when the log file cannot be opened the process exits with status 1
\* before any cycle: no sensor call, no log write, no alert, no sleep.
C3_LogOpenFailureExits ==
  log = "NULL" =>
    /\ \E p \in Procs : pc[p] = "exited" /\ exitStatus[p] = 1
    /\ \A p \in Procs : pc[p] \notin LoopPcs
    /\ cycle = 0
    /\ sensor = NoCall
    /\ notifier = NoAlert
    /\ readings = <<>>
    /\ logBuf = <<>>
    /\ logFile = <<>>
    /\ alerts = <<>>
    /\ sleeps = 0

\* the daemonized process found the log file unopenable and has exited
C3_Witness ==
  /\ log = "NULL"
  /\ pc["grand"] = "exited"
  /\ exitStatus["grand"] = 1
  /\ failed["grand"] = {}

\* C4: a failing step of create_daemon ends the process at once with the
\* failure status; control does not return to main after a failed step.
C4_FailedStepTerminates ==
  \A p \in Procs :
    failed[p] # {} => pc[p] = "exited" /\ exitStatus[p] = EXIT_FAILURE

\* C5: whenever create_daemon returns, exactly one of the three processes is
\* alive, and it has no controlling terminal, is not a session leader, has
\* working directory "/", mask 0 and descriptors 0, 1, 2 on the null device.
C5_DaemonPostcondition ==
  \A p \in Procs :
    pc[p] = "fopen" =>
      /\ {q \in Procs : pc[q] \notin {"unborn", "exited"}} = {p}
      /\ ~ctty[p]
      /\ ~leader[p]
      /\ cwd[p] = "/"
      /\ mask[p] = 0
      /\ \A d \in 0..2 : fds[p][d] = "null"

\* C6 as stated: status 0 only on the fall-through after the loop, which no
\* process reaches; status 1 exactly when the log file cannot be opened; a
\* failed fork or setsid yields the failure status.
C6_ExitCodesAsStated ==
  /\ \A p \in Procs : exitStatus[p] # 0
  /\ (\E p \in Procs : exitStatus[p] = 1) <=> log = "NULL"
  /\ \A p \in Procs :
       failed[p] \cap {"fork1", "setsid", "fork2"} # {} =>
         pc[p] = "exited" /\ exitStatus[p] = EXIT_FAILURE

\* C6: status 0 is the status of a parent whose fork succeeded (the invoked
\* process and the intermediate child), never of the process that returns
\* from create_daemon; that process exits with status 1 exactly when the
\* log file cannot be opened; a failed fork or setsid yields the failure
\* status.
C6_ExitCodes ==
  /\ exitStatus["orig"] = 0 => pc["child"] # "unborn" /\ failed["orig"] = {}
  /\ exitStatus["child"] = 0 => pc["grand"] # "unborn" /\ failed["child"] = {}
  /\ exitStatus["grand"] # 0
  /\ exitStatus["grand"] = 1 <=> log = "NULL"
  /\ pc["grand"] = "exited" => exitStatus["grand"] = 1
  /\ \A p \in Procs :
       failed[p] \cap {"fork1", "setsid", "fork2"} # {} =>
         pc[p] = "exited" /\ exitStatus[p] = EXIT_FAILURE

\* both parents have exited with 0 and the daemon with 1 on the log failure
C6_Witness ==
  /\ exitStatus["orig"] = 0
  /\ exitStatus["child"] = 0
  /\ exitStatus["grand"] = 1
  /\ log = "NULL"

\* C7: the entry is flushed right after it is written: wherever the process
\* is, and wherever it is killed, the file holds exactly the entries of the
\* cycles whose fflush was done, and nothing is pending in the buffer at
\* the threshold test, the alert, the sleep or the start of the next cycle.
C7_FlushedEntriesDurable ==
  \A p \in Procs :
    /\ pc[p] \in LoggedPcs \cup {"sense", "reading", "assign"} =>
         logBuf = <<>> /\ logFile = Entries(readings)
    /\ pc[p] \in {"fprintf", "fflush"} =>
         logFile = Entries(SubSeq(readings, 1, cycle - 1))
    /\ pc[p] = "fflush" /\ p \notin killed => Len(logBuf) = 1

\* the process was killed right after the second cycle's fflush and the
\* file holds both entries
C7_Witness ==
  /\ "grand" \in killed
  /\ pc["grand"] = "check"
  /\ cycle = 2
  /\ Len(logFile) = 2
  /\ logFile[2].hundredths = Rounded(temp, 10)

\* C8: when the sensing tool cannot be invoked (popen fails, or the tool is
\* missing) get_cpu_temp returns -1.0; a cycle with that reading logs
\* -1.00, fires no alert and goes on to the sleep.
C8_ToolUnavailableGivesMinusOne ==
  \A p \in Procs :
    /\ pc[p] = "assign" /\ sensor.launch \in {"popen_fail", "no_tool"} =>
         sensor.ret = 0 - 1000
    /\ pc[p] \in SensedPcs /\ temp = 0 - 1000 =>
         /\ pc[p] # "notify"
         /\ notified = 0
         /\ pc[p] \in LoggedPcs =>
              logFile[Len(logFile)] = [neg |-> TRUE, hundredths |-> 100]

\* what C9 says of a state: a call that ran sensors and met no readable
\* line has read every line and returns 0.0; a cycle whose reading is 0.0
\* logs 0.00, fires no alert, and is in the loop
C9_State ==
  \A p \in Procs :
    /\ /\ pc[p] = "assign"
       /\ sensor.launch = "ran"
       /\ \A i \in 1..Len(Out) : ~Readable(Out[i])
       => sensor.ret = 0 /\ sensor.nread = Len(Out)
    /\ (pc[p] \in SensedPcs \/ (pc[p] = "sense" /\ cycle > 0)) /\ temp = 0 =>
         /\ pc[p] # "notify"
         /\ notified = 0
         /\ pc[p] \in LoggedPcs \cup {"sense"} =>
              logFile[Len(logFile)] = [neg |-> FALSE, hundredths |-> 0]

\* C9: when sensors runs and no line yields a reading, get_cpu_temp has read
\* every line and returns 0.0; that value is the cycle's reading, the cycle
\* logs 0.00, fires no alert and the loop goes on.
C9_NoReadingGivesZero == []C9_State /\ [][ReadingStored]_vars

\* sensors printed two lines, one of them a Tctl line with a negative
\* value, and get_cpu_temp returns 0.0 after reading both
C9_Witness ==
  /\ pc["grand"] = "assign"
  /\ sensor.launch = "ran"
  /\ Len(Out) = 2
  /\ Out[1] = NegativeLine
  /\ ~Out[2].marker
  /\ sensor.nread = 2
  /\ sensor.ret = 0

\* the first line of out that satisfies P, 0 when there is none
FirstLine(out, P(_)) ==
  IF \E i \in 1..Len(out) : P(out[i])
    THEN CHOOSE i \in 1..Len(out) : P(out[i]) /\ \A j \in 1..(i - 1) : ~P(out[j])
    ELSE 0

HasMarker(line) == line.marker

\* C10 as stated: the result is the value of the first line that contains
\* "Tctl:", and no line after that line is read.
C10_FirstMarkerLineWins ==
  \A p \in Procs :
    pc[p] = "assign" /\ sensor.launch = "ran" /\ FirstLine(Out, HasMarker) # 0 =>
      /\ sensor.ret = Out[FirstLine(Out, HasMarker)].num
      /\ sensor.nread = FirstLine(Out, HasMarker)

\* C10: the result is the value of the first line the pattern reads a value
\* from (marker first on the line, then '+', then a number), and no line
\* after that line is read; marker lines that do not fit are passed over.
C10_FirstReadableLineWins ==
  \A p \in Procs :
    pc[p] = "assign" /\ sensor.launch = "ran" /\ FirstLine(Out, Readable) # 0 =>
      /\ sensor.ret = Out[FirstLine(Out, Readable)].num
      /\ sensor.nread = FirstLine(Out, Readable)

\* two readable lines with different values: the first one is the result
\* and the second was not read
C10_Witness ==
  /\ pc["grand"] = "assign"
  /\ sensor.launch = "ran"
  /\ Len(Out) = 2
  /\ Readable(Out[1]) /\ Readable(Out[2])
  /\ Out[1].num # Out[2].num
  /\ sensor.ret = Out[1].num
  /\ sensor.nread = 1

\* what C11 says of a step: when system() returns, whatever the status of
\* the command, send_notification returns to the loop at the sleep and
\* nothing the program holds has changed
C11_Step ==
  \A p \in Procs :
    pc[p] = "system" /\ pc'[p] # "system" =>
      /\ pc'[p] = "sleep"
      /\ UNCHANGED <<exitStatus, exitAt, killed, procVars, log, temp, logBuf,
                     logFile, sensor, elapsed, histVars>>

\* what C11 says of a state: after a notification command that failed the
\* process is at the sleep as after one that succeeded, no status is set
\* and nothing about the failure is in the log
C11_State ==
  notifier.state = "done" =>
    /\ pc["grand"] = "sleep"
    /\ exitStatus["grand"] = 0 - 1
    /\ notified = 1
    /\ Len(logFile) = cycle
    /\ logBuf = <<>>

\* C11: the alert is fire-and-forget: whether the notification command
\* succeeds or fails, the monitor goes on in the same way (the sleep next,
\* the same state) and no error is recorded or acted upon.
C11_FireAndForget == []C11_State /\ [][C11_Step]_vars

\* the notification command of the second cycle failed and the process is
\* at the sleep
C11_Witness ==
  /\ notifier = [state |-> "done", exits |-> TRUE, status |-> "failed"]
  /\ pc["grand"] = "sleep"
  /\ "grand" \notin killed
  /\ cycle = 2

\* what C12 says of a step: a process in the loop stays in the loop, exits
\* with no status, and its log stream and descriptors stay as they are
C12_Step ==
  \A p \in Procs :
    pc[p] \in LoopPcs =>
      /\ pc'[p] \in LoopPcs
      /\ exitStatus'[p] = exitStatus[p]
      /\ log' = log
      /\ fds'[p] = fds[p]
      /\ killed' # killed => pc' = pc

\* what C12 says of a state: in the loop the log stream is open, on one
\* descriptor
C12_State ==
  \A p \in Procs :
    pc[p] \in LoopPcs =>
      /\ log = "open"
      /\ Cardinality({d \in Fds : fds[p][d] = "log"}) = 1

\* C12: once in the loop the process never leaves it by itself: no outcome
\* of sensing, logging, alerting or sleeping ends it, the log stream is
\* never closed or reopened; only the external signal ends the process.
C12_MonitoringNeverLeaves == []C12_State /\ [][C12_Step]_vars

\* popen failed in the first cycle, the notification command failed in the
\* second, and the process is still in the loop
C12_Witness ==
  /\ pc["grand"] = "sleep"
  /\ "grand" \notin killed
  /\ cycle = 2
  /\ readings[1] = PopenFailed
  /\ notifier.status = "failed"
  /\ log = "open"

\* C13 as stated: the next call of get_cpu_temp() begins 5 time units after
\* the one before.
C13_PeriodIsInterval ==
  [][\A p \in Procs : pc[p] = "sleep" /\ pc'[p] = "sense" => elapsed' = INTERVAL]_vars

\* C13: the next call of get_cpu_temp() begins 5 time units after the end
\* of the cycle's work: the time between two calls is 5 plus the time the
\* process waited for sensors and for the notification command, never less
\* than 5.
C13_PeriodIsIntervalPlusWork ==
  [][\A p \in Procs :
       pc[p] = "sleep" /\ pc'[p] = "sense" =>
         /\ elapsed' = elapsed + INTERVAL
         /\ elapsed' >= INTERVAL]_vars

\* a cycle is over whose sensors run and notification command took time:
\* more than 5 units have passed since it began
C13_Witness ==
  /\ pc["grand"] = "sense"
  /\ cycle >= 1
  /\ elapsed = INTERVAL + 2 * MaxDelay

\* the readings at or above the threshold, in order
Hot(rs) == SelectSeq(rs, LAMBDA t : t >= TEMP_THRESHOLD)

\* the notification commands of a sequence of readings
Commands(rs) == [i \in 1..Len(rs) |-> AlertCommand(rs[i])]

\* C14: there is no de-duplication or rate limiting: every cycle whose
\* reading is >= 65.0 fires its own alert, so N such cycles in a row give
\* exactly N alerts, one per cycle in the order of the cycles.
C14_OneAlertPerHotCycle ==
  \A p \in Procs :
    /\ pc[p] \in {"system", "sleep", "sense"} => alerts = Commands(Hot(readings))
    /\ pc[p] \in {"fprintf", "fflush", "check", "notify"} =>
         alerts = Commands(Hot(SubSeq(readings, 1, cycle - 1)))

\* two cycles in a row read 65.0 and two alerts were fired
C14_Witness ==
  /\ pc["grand"] = "sleep"
  /\ cycle = 2
  /\ readings = <<65000, 65000>>
  /\ Len(alerts) = 2

\* the reading a sensors run stands for: -1.0 when popen failed, the value
\* of the first line the pattern reads a value from, 0.0 without one
Expected(call) ==
  IF call.launch = "popen_fail" THEN 0 - 1000
  ELSE IF FirstLine(call.out, Readable) # 0
         THEN call.out[FirstLine(call.out, Readable)].num
         ELSE 0

\* C15: what a cycle logs and whether it alerts are a function of the
\* cycle's sensor output alone, whatever the cycles before were: cycles
\* with the same output give the same log line body and the same alert
\* decision.
C15_CycleDependsOnOutputOnly ==
  \A p \in Procs :
    /\ pc[p] \in LoggedPcs =>
         logFile[Len(logFile)] =
           [neg |-> Expected(sensor) < 0,
            hundredths |-> (Abs(Expected(sensor)) + 5) \div 10]
    /\ pc[p] \in {"system", "sleep"} =>
         (notified = 1 <=> Expected(sensor) >= TEMP_THRESHOLD)
    /\ pc[p] = "notify" => Expected(sensor) >= TEMP_THRESHOLD

\* after a cycle that read 65.0 and alerted, a cycle whose sensors run has
\* no Tctl line logs 0.00 and does not alert
C15_Witness ==
  /\ pc["grand"] = "sleep"
  /\ cycle = 2
  /\ readings[1] = 65000
  /\ sensor.launch = "ran"
  /\ sensor.out = <<OtherLine>>
  /\ logFile[2] = [neg |-> FALSE, hundredths |-> 0]
  /\ notified = 0

\* where a process is when create_daemon has returned
MainPcs == {"fopen"} \cup LoopPcs

\* where a process is when it has executed close(STDIN_FILENO)
ClosedPcs == {"close1", "close2", "open0", "open1", "open2"} \cup MainPcs

\* C16: the steps of create_daemon run in their order and a step is
\* executed only when every step before it has succeeded in the process
\* and its ancestors: the child exists only after a successful first fork,
\* the grandchild only after a successful setsid and second fork, the
\* descriptors are closed only after a successful chdir, a null device is
\* opened only after the one before was opened; and setsid is called by a
\* process that leads no process group.
C16_StepsInOrderAfterSuccess ==
  /\ pc["child"] # "unborn" => "fork1" \notin failed["orig"]
  /\ pc["child"] = "setsid" => ~pgLeader["child"]
  /\ pc["child"] \in {"fork2", "exit_parent2"} => leader["child"]
  /\ pc["grand"] # "unborn" =>
       /\ failed["child"] = {}
       /\ leader["child"]
  /\ \A p \in Procs :
       /\ pc[p] \in {"chdir"} \cup ClosedPcs => mask[p] = 0
       /\ pc[p] \in ClosedPcs => "chdir" \notin failed[p] /\ cwd[p] = "/"
       /\ pc[p] \in {"open0", "open1", "open2"} \cup MainPcs =>
            \A d \in 0..2 : fds[p][d] # "tty"
       /\ pc[p] \in {"open2"} \cup MainPcs => fds[p][0] = "null"
       /\ pc[p] \in MainPcs => fds[p][1] = "null"

\* what C17 says of a state: only the grandchild is ever in main after
\* create_daemon, and then both parents are at or past their exit and the
\* steps of create_daemon were done; no other process holds the log; what
\* monitoring leaves behind exists only once the grandchild is there
C17_State ==
  /\ \A p \in Procs :
       pc[p] \in MainPcs =>
         /\ p = "grand"
         /\ pc["orig"] \in {"exit_parent1", "exited"}
         /\ pc["child"] \in {"exit_parent2", "exited"}
         /\ mask[p] = 0 /\ ~ctty[p] /\ ~leader[p]
         /\ \A d \in 0..2 : fds[p][d] # "tty"
  /\ \A p \in {"orig", "child"} : \A d \in Fds : fds[p][d] # "log"
  /\ Cardinality({d \in Fds : fds["grand"][d] = "log"}) <= 1
  /\ (log # "unset" \/ cycle > 0 \/ logBuf # <<>> \/ logFile # <<>> \/ alerts # <<>>)
       => pc["grand"] \in LoopPcs \cup {"exited"}
  /\ cycle > 0 => log = "open"

\* what C17 says of a step: the loop is entered from the fopen of the
\* grandchild only, and only that fopen changes the log stream
C17_Step ==
  /\ \A p \in Procs :
       pc'[p] \in LoopPcs /\ pc[p] \notin LoopPcs =>
         p = "grand" /\ pc[p] = "fopen" /\ log = "unset" /\ log' = "open"
  /\ log' # log => pc["grand"] = "fopen" /\ log = "unset"

Hung ==
  \/ sensor.launch \in {"no_tool", "ran"} /\ ~sensor.exits
  \/ notifier.state = "running" /\ ~notifier.exits

\* what C18 says of a step: while the sensors process has not exited
\* get_cpu_temp does not return: no log write, no alert, no sleep
C18_Step ==
  \A p \in Procs :
    pc[p] = "reading" /\ ~sensor.exits =>
      /\ pc'[p] = "reading"
      /\ UNCHANGED <<temp, logBuf, logFile, readings, alerts, wrote, notified, sleeps>>

\* C18: sensing is synchronous and has no timeout: as long as the sensors
\* process has not exited the monitor writes no log entry, fires no alert
\* and does not sleep, for ever if the process never exits; and when the
\* commands of a cycle do exit, the log gets its next entry, unless the
\* monitor is stopped.
C18_SensingBlocks ==
  /\ [][C18_Step]_vars
  /\ \A n \in 0..(MaxCycles - 1) :
       (Len(logFile) = n /\ pc["grand"] \in LoopPcs)
         ~> (Len(logFile) > n \/ "grand" \in killed \/ Hung)

\* the second cycle waits for a sensors process that never exits; the
\* first cycle's entry is in the file
C18_Witness ==
  /\ pc["grand"] = "reading"
  /\ ~sensor.exits
  /\ "grand" \notin killed
  /\ cycle = 2
  /\ Len(logFile) = 1
  /\ elapsed = MaxDelay

\* C19: a cycle calls get_cpu_temp() once, and the value logged, the value
\* compared with the threshold and the value given to send_notification
\* are that one value.
C19_OneReadingPerCycle ==
  \A p \in Procs :
    pc[p] \in LoopPcs =>
      /\ cycle = sleeps + (IF pc[p] = "sense" THEN 0 ELSE 1)
      /\ Len(readings) = sleeps + (IF pc[p] \in SensedPcs THEN 1 ELSE 0)
      /\ pc[p] \in SensedPcs => temp = sensor.ret /\ readings[cycle] = sensor.ret
      /\ pc[p] \in LoggedPcs => logFile[cycle] = LogEntry(sensor.ret)
      /\ pc[p] \in {"notify", "system"} => sensor.ret >= TEMP_THRESHOLD
      /\ pc[p] = "sleep" => (notified = 1 <=> sensor.ret >= TEMP_THRESHOLD)
      /\ pc[p] \in {"system", "sleep"} /\ notified = 1 =>
           alerts[Len(alerts)] = AlertCommand(sensor.ret)

\* the second cycle read 65.0 once: 65.00 is in the log and 65.0 in the
\* alert
C19_Witness ==
  /\ pc["grand"] = "sleep"
  /\ cycle = 2
  /\ sensor.ret = 65000
  /\ logFile[2].hundredths = 6500
  /\ notified = 1
  /\ alerts[Len(alerts)].tenths = 650

\* the start has failed after the first fork: setsid or the second fork
\* failed, or the log file could not be opened
StartFailed ==
  \/ failed["child"] \cap {"setsid", "fork2"} # {}
  \/ log = "NULL"

\* C20 as stated: the status of the invoked process tells whether the
\* monitor started: when setsid, the second fork or the log open has failed
\* the invoked process does not exit with 0.
C20_LauncherSeesStartFailure ==
  StartFailed => exitStatus["orig"] # EXIT_SUCCESS

\* C20: the status of the invoked process tells how the first fork went
\* and nothing more: it is the failure status exactly when that fork
\* failed and 0 as soon as it succeeded; a failure of setsid, of the second
\* fork or of the log open ends a descendant with status 1 and leaves the
\* status of the invoked process what it was or will be, 0.
C20_LauncherSeesFirstForkOnly ==
  /\ pc["orig"] = "exited" =>
       /\ exitStatus["orig"] = EXIT_FAILURE <=> "fork1" \in failed["orig"]
       /\ exitStatus["orig"] = EXIT_SUCCESS <=> pc["child"] # "unborn"
  /\ StartFailed =>
       /\ exitStatus["orig"] \in {0 - 1, EXIT_SUCCESS}
       /\ pc["orig"] \in {"exit_parent1", "exited"}
       /\ \E p \in {"child", "grand"} : pc[p] = "exited" /\ exitStatus[p] = 1

\* the invoked process has exited with 0 and setsid failed in the child:
\* no daemon exists
C20_Witness ==
  /\ pc["orig"] = "exited"
  /\ exitStatus["orig"] = EXIT_SUCCESS
  /\ exitAt["child"] = "setsid_failed"
  /\ exitStatus["child"] = 1
  /\ pc["grand"] = "unborn"

\* C23: in the monitoring process the log file is never on descriptor 0, 1
\* or 2, whatever failed in create_daemon, so nothing written to a standard
\* stream by the monitor or by the commands it starts lands in the log.
C23_LogNotOnStandardDescriptor ==
  \A p \in Procs :
    pc[p] \in LoopPcs => \A d \in 0..2 : fds[p][d] # "log"

\* what a log entry and an alert command show of the threshold
EntryAtThreshold(e) == ~e.neg /\ e.hundredths >= 6500
CommandAtThreshold(c) == ~c.neg /\ c.tenths >= 650

\* C24 as stated: in every cycle an alert is fired exactly when the value
\* shown in the cycle's log entry is >= 65.00, and every alert shows a value
\* >= 65.0.
C24_AlertIffLoggedAtThreshold ==
  \A p \in Procs :
    pc[p] = "sleep" =>
      /\ notified = 1 <=> EntryAtThreshold(logFile[cycle])
      /\ notified = 1 => CommandAtThreshold(alerts[Len(alerts)])

\* C24: an alert is fired exactly when the reading itself is >= 65.0; then
\* the log entry shows a value >= 65.00 and the alert a value >= 65.0; a
\* reading below 65.0 that rounds to 65.00 (64.995 to 64.999) is logged as
\* 65.00 and fires no alert, and no other reading without alert is logged
\* as 65.00 or more.
C24_AlertIffReadingAtThreshold ==
  \A p \in Procs :
    pc[p] = "sleep" =>
      /\ notified = 1 <=> temp >= 65000
      /\ notified = 1 =>
           /\ EntryAtThreshold(logFile[cycle])
           /\ CommandAtThreshold(alerts[Len(alerts)])
      /\ temp \in 64995..64999 =>
           /\ logFile[cycle] = [neg |-> FALSE, hundredths |-> 6500]
           /\ notified = 0
      /\ notified = 0 /\ EntryAtThreshold(logFile[cycle]) => temp \in 64995..64999

\* the second cycle read 64.999: 65.00 is in the log and no alert was fired
C24_Witness ==
  /\ pc["grand"] = "sleep"
  /\ cycle = 2
  /\ temp = 64999
  /\ logFile[2] = [neg |-> FALSE, hundredths |-> 6500]
  /\ notified = 0

\* C25 as stated: a cycle that fired an alert does not wait for the
\* notification command: from system() the process can always go on to the
\* sleep, whether or not the command has exited.
C25_AlertDoesNotBlock ==
  \A p \in Procs :
    pc[p] = "system" /\ p \notin killed => ENABLED NotifyExit(p)

\* what C25 says of a step: while the notification command has not exited
\* the process stays in system(): no sleep, no new cycle, no log entry
C25_Step ==
  \A p \in Procs :
    pc[p] = "system" /\ ~notifier.exits =>
      /\ pc'[p] = "system"
      /\ UNCHANGED <<temp, logBuf, logFile, readings, alerts, cycle, sleeps>>

\* what C25 says of a state: at the sleep of a cycle that fired an alert
\* the notification command has exited
C25_State ==
  \A p \in Procs :
    /\ pc[p] = "sleep" /\ notified = 1 => notifier.state = "done"
    /\ pc[p] = "system" => notifier.state = "running" /\ Len(logFile) = cycle

\* C25: a cycle that fired an alert waits for the notification command:
\* system() returns when the command has exited and only then the sleep
\* and the next cycle begin; a notification command that never exits
\* stalls the loop and no later reading is logged.
C25_AlertBlocks == []C25_State /\ [][C25_Step]_vars

\* the first cycle waits in system() for a notification command that never
\* exits; time has passed and readings are still to come
C25_Witness ==
  /\ pc["grand"] = "system"
  /\ ~notifier.exits
  /\ "grand" \notin killed
  /\ cycle = 1
  /\ cycle < MaxCycles
  /\ elapsed = 2 * MaxDelay
  /\ Len(logFile) = 1

\* the value written on a line, with its sign
LineValue(line) == IF line.sign = "-" THEN 0 - line.num ELSE line.num

\* a Tctl line with a value that is negative or does not begin the line
SignedOrIndented(line) ==
  line.marker /\ line.num # NoNumber /\ (line.sign = "-" \/ ~line.atStart)

\* C26 as stated: when the first Tctl line of the output has a negative
\* value or its marker is not at the start of the line, the result is the
\* value on that line, and it is not the 0.0 of an output without Tctl
\* line.
C26_SignedValueParsed ==
  \A p \in Procs :
    /\ pc[p] = "assign"
    /\ sensor.launch = "ran"
    /\ FirstLine(Out, HasMarker) # 0
    /\ SignedOrIndented(Out[FirstLine(Out, HasMarker)])
    => /\ sensor.ret = LineValue(Out[FirstLine(Out, HasMarker)])
       /\ sensor.ret # 0

\* C26: get_cpu_temp reads a value only from a line that begins with the
\* marker and has a '+' before the number: a Tctl line with a negative
\* value or with the marker further in gives no reading; the result is
\* never negative, and when no other line gives a reading it is all lines
\* read and 0.0, the same as for an output without Tctl line.
C26_OnlyPlusAtLineStartParsed ==
  \A p \in Procs :
    pc[p] = "assign" /\ sensor.launch = "ran" =>
      /\ sensor.ret >= 0
      /\ \A i \in 1..sensor.nread :
           SignedOrIndented(Out[i]) => i < sensor.nread \/ sensor.ret = 0
      /\ (\A i \in 1..Len(Out) : SignedOrIndented(Out[i]) \/ ~Out[i].marker) =>
           sensor.ret = 0 /\ sensor.nread = Len(Out)

\* the only line of the output is "k10temp Tctl: +70.3°C" and the result is
\* 0.0
C26_Witness ==
  /\ pc["grand"] = "assign"
  /\ sensor.launch = "ran"
  /\ Out = <<IndentedLine>>
  /\ sensor.nread = 1
  /\ sensor.ret = 0

\* C21: start.sh lets at most one program monitor: in any interleaving of
\* runs of start.sh there are never two launched programs in the loop,
\* appending to the same log file.
C21_AtMostOneMonitoring ==
  Cardinality({s \in Starts : daemon[s] = "monitoring"}) <= 1

\* C22: when stop.sh prints that the daemon is stopped no cpu_daemon
\* process is left and none writes a log entry afterwards; a run of
\* start.sh whose pgrep comes after that, with nothing launched in
\* between, finds no daemon and launches one.
C22_StoppedMeansGone ==
  [][/\ \A k \in Stops :
          stop[k] = "echo" /\ stop'[k] = "stopped" =>
            \A s \in Starts : daemon'[s] \notin InTable
     /\ \A k \in Stops :
          stop[k] = "stopped" =>
            \A s \in Starts : daemon[s] = "signalled" => appended'[s] = appended[s]
     /\ \A k \in Stops : \A s \in Starts :
          /\ stop[k] = "stopped"
          /\ start[s] = "pgrep" /\ start'[s] # "pgrep"
          /\ \A t \in Starts : daemon[t] \notin {"starting", "monitoring"}
          => start'[s] = "launch"]_vars

====
